---- MODULE Spec2Model ----
(***************************************************************************)
(* The insertion operator of src/algebra/op/insert.rs (Insert / Upsert of  *)
(* graph rows into the transactional and the temporary store) as a state   *)
(* machine: Insertion::build binds a chain of table names to an operator,  *)
(* and every pull of the operator's iterator processes one upstream item.  *)
(* The schema builder of src/definition.rs (StructuredEnv::build_table over *)
(* a stack of scopes) is the second machine, run by SpecDef.                *)
(***************************************************************************)
EXTENDS Integers, Sequences, FiniteSets, TLC

\* ------------------------------------------------------------------ bounds

\* upstream items pulled from one iterator
MaxRows == 2
\* values the key column pid ranges over
MaxKey == 2
\* names in an insertion chain
MaxChain == 3

\* definitions in one build_table pass
MaxDefs == 3

\* ------------------------------------------------------- tuples and stores

\* DataKind::Data as u32, the prefix of every row payload
DataKindData == 0

\* An OwnTuple: a u32 prefix and the encoded values, each value carrying its
\* type tag so that Bool(true) and Int(1) encode differently.
Tuple(prefix, data) == [prefix |-> prefix, data |-> data]

NoTuple == Tuple(0, <<>>)

EncBool(b) == <<"Bool", IF b THEN 1 ELSE 0>>

EncInt(n) == <<"Int", n>>

\* Tuple::overwrite_prefix: the same encoded values under another prefix
overwrite_prefix(key, id) == [key EXCEPT !.prefix = id]

\* A store is a map from key tuples to value tuples.
EmptyStore == [k \in {} |-> NoTuple]

\* get(read_opts, key, scratch): true iff the key exists
store_get(s, k) == k \in DOMAIN s

\* put(key, val): the entry is created or overwritten
store_put(s, k, v) == [x \in (DOMAIN s) \cup {k} |-> IF x = k THEN v ELSE s[x]]

\* ----------------------------------------------------------------- catalog

TableId(in_root, id) == [in_root |-> in_root, id |-> id]

NoId == TableId(FALSE, 0)

Info(kind, name, tid, keys, vals, src_id, dst_id) ==
    [kind |-> kind, name |-> name, tid |-> tid, keys |-> keys, vals |-> vals,
     src_id |-> src_id, dst_id |-> dst_id]

NoTable == Info("None", "", NoId, <<>>, <<>>, NoId, NoId)

\* The tables of the session, in the order they were defined.  Ids are unique
\* within their persistence; the local edge WorksAt joins two global nodes,
\* PersonNote is a local association on a global main and shares its id with
\* that main, EdgeMeta is a global association on a local main.
Catalog ==
    << Info("Node",  "Person",      TableId(TRUE, 1),  <<"pid">>, <<"name">>, NoId, NoId),
       Info("Node",  "Company",     TableId(TRUE, 2),  <<"cid">>, <<"name">>, NoId, NoId),
       Info("Edge",  "WorksAt",     TableId(FALSE, 2), <<>>, <<"name">>,
                                    TableId(TRUE, 1), TableId(TRUE, 2)),
       Info("Assoc", "PersonMeta",  TableId(TRUE, 3),  <<>>, <<"tag">>, TableId(TRUE, 1), NoId),
       Info("Assoc", "PersonNote",  TableId(FALSE, 1), <<>>, <<"tag">>, TableId(TRUE, 1), NoId),
       Info("Assoc", "EdgeMeta",    TableId(TRUE, 4),  <<>>, <<"tag">>, TableId(FALSE, 2), NoId),
       Info("Assoc", "CompanyMeta", TableId(TRUE, 5),  <<>>, <<"tag">>, TableId(TRUE, 2), NoId),
       Info("Index", "PersonIdx",   TableId(TRUE, 6),  <<>>, <<>>, TableId(TRUE, 1), NoId) >>

CatalogIdx == 1..Len(Catalog)

\* ctx.resolve_table(name): the id of the table of that name, if any
resolve_table(name) ==
    IF \E i \in CatalogIdx : Catalog[i].name = name
    THEN [some |-> TRUE, tid |-> (CHOOSE t \in {Catalog[i] : i \in CatalogIdx} : t.name = name).tid]
    ELSE [some |-> FALSE, tid |-> NoId]

\* ctx.table_by_id(tid) / ctx.get_table_info(tid)
table_by_id(tid) == CHOOSE t \in {Catalog[i] : i \in CatalogIdx} : t.tid = tid

\* ctx.assocs_by_main_id(id): every association attached to that main
assocs_by_main_id(main_id) ==
    LET attached(t) == t.kind = "Assoc" /\ t.src_id = main_id
    IN  SelectSeq(Catalog, attached)

\* ------------------------------------------------------- Insertion::build

NoOp ==
    [ok |-> FALSE, err |-> "NotBuilt", arg |-> <<>>, target_info |-> NoTable,
     assoc_infos |-> <<>>, upsert |-> FALSE]

BuildErr(err, arg) == [NoOp EXCEPT !.err = err, !.arg = arg]

\* The loop over chain_el_names: every name is resolved and classified as an
\* association or a main; the first name that does not resolve, or resolves to
\* a table of another kind, ends the build.
RECURSIVE classify(_, _, _)
classify(names, assocs, main) ==
    IF names = <<>>
    THEN [err |-> "none", arg |-> <<>>, assocs |-> assocs, main |-> main]
    ELSE LET name == Head(names)
             tid  == resolve_table(name)
         IN  IF ~tid.some
             THEN [err |-> "TableNotFound", arg |-> <<name>>, assocs |-> assocs, main |-> main]
             ELSE LET info == table_by_id(tid.tid)
                  IN  IF info.kind = "Assoc"
                      THEN classify(Tail(names), Append(assocs, info), main)
                      ELSE IF info.kind \in {"Node", "Edge"}
                      THEN classify(Tail(names), assocs, Append(main, info))
                      ELSE [err |-> "WrongTableKind", arg |-> <<info.name>>,
                            assocs |-> assocs, main |-> main]

\* A count that lets several mains through
some_main(main) == Len(main) >= 1

\* match main.len(): 1 => ..., _ => WrongSpecification
single_main(main) == Len(main) = 1

\* match main.len(): with exactly one main the associations become
\* ctx.assocs_by_main_id(main id), whatever the chain listed.
attach_assocs(listed, main) == assocs_by_main_id(main[1].tid)

\* for assoc in &assocs: the first association of another main
first_foreign(assocs, main_id) ==
    LET bad == {i \in 1..Len(assocs) : assocs[i].src_id # main_id}
    IN  IF bad = {} THEN 0 ELSE CHOOSE i \in bad : \A j \in bad : i <= j

\* Insertion::build(ctx, prev = None, args, upsert), where argc arguments are
\* given (source, chain, scoped dict) and keyed says whether the scoped dict
\* has key-marked entries.
build(chain, argc, keyed, upsert) ==
    IF argc < 2
    THEN BuildErr("NotEnoughArguments", <<IF upsert THEN "Upsert" ELSE "Insert">>)
    ELSE LET c == classify(chain, <<>>, <<>>)
         IN  IF c.err # "none" THEN BuildErr(c.err, c.arg)
             ELSE IF ~single_main(c.main) THEN BuildErr("WrongSpecification", <<>>)
             ELSE LET main   == c.main[1]
                      assocs == attach_assocs(c.assocs, c.main)
                      bad    == first_foreign(assocs, main.tid)
                  IN  IF bad # 0
                      THEN BuildErr("NoAssociation", <<assocs[bad].name, main.name>>)
                      ELSE IF argc < 3
                      THEN BuildErr("NotEnoughArguments",
                                    <<IF upsert THEN "Upsert" ELSE "Insert">>)
                      ELSE IF keyed
                      THEN BuildErr("Parse", <<"Cannot have keyed map in Insert">>)
                      ELSE [ok |-> TRUE, err |-> "none", arg |-> <<>>,
                            target_info |-> main, assoc_infos |-> assocs,
                            upsert |-> upsert]

\* -------------------------------------------------------------- extractors

\* An extractor is a constant expression or the lookup of a column in the
\* extract map evaluated against the upstream tuple.
ConstExtractor(b) == [const |-> TRUE, col |-> "", v |-> EncBool(b)]

\* ColSchema::make_extractor(extract_map)
make_extractor(col) == [const |-> FALSE, col |-> col, v |-> EncBool(FALSE)]

extractors(cols) == [i \in 1..Len(cols) |-> make_extractor(cols[i])]

\* Evaluation of one extractor against the upstream tuple t (a map from the
\* columns the tuple binds to their values): a column the tuple does not bind
\* is an evaluation failure.
extract(x, t) ==
    IF x.const THEN [ok |-> TRUE, v |-> x.v]
    ELSE IF x.col \in DOMAIN t THEN [ok |-> TRUE, v |-> EncInt(t[x.col])]
    ELSE [ok |-> FALSE, v |-> EncInt(0)]

\* TupleSetEvalContext::eval_to_tuple(prefix, builder)
eval_to_tuple(prefix, builder, t) ==
    IF \A i \in 1..Len(builder) : extract(builder[i], t).ok
    THEN [ok |-> TRUE,
          tup |-> Tuple(prefix, [i \in 1..Len(builder) |-> extract(builder[i], t).v])]
    ELSE [ok |-> FALSE, tup |-> NoTuple]

\* An inverse key builder that keeps the order of the forward key
inv_key_builder_unswapped(e, src, dst) ==
    <<ConstExtractor(FALSE)>> \o extractors(src.keys) \o extractors(dst.keys)
        \o extractors(e.keys)

\* The inverse key builder of an edge: FALSE, dst keys, src keys, edge keys
inv_key_builder_of(e, src, dst) ==
    <<ConstExtractor(FALSE)>> \o extractors(dst.keys) \o extractors(src.keys)
        \o extractors(e.keys)

\* Key builders whose forward and inverse keys carry the same leading flag
make_key_builders_one_flag(target_info) ==
    IF target_info.kind = "Node"
    THEN [key_builder |-> extractors(target_info.keys),
          val_builder |-> extractors(target_info.vals),
          has_inv |-> FALSE, inv_key_builder |-> <<>>]
    ELSE LET src == table_by_id(target_info.src_id)
             dst == table_by_id(target_info.dst_id)
         IN  [key_builder |-> <<ConstExtractor(TRUE)>> \o extractors(src.keys)
                                  \o extractors(dst.keys) \o extractors(target_info.keys),
              val_builder |-> extractors(target_info.vals),
              has_inv |-> TRUE,
              inv_key_builder |-> <<ConstExtractor(TRUE)>> \o extractors(dst.keys)
                                      \o extractors(src.keys) \o extractors(target_info.keys)]

\* make_key_builders(ctx, target_info, extract_map)
make_key_builders(target_info) ==
    IF target_info.kind = "Node"
    THEN [key_builder |-> extractors(target_info.keys),
          val_builder |-> extractors(target_info.vals),
          has_inv |-> FALSE, inv_key_builder |-> <<>>]
    ELSE LET src == table_by_id(target_info.src_id)
             dst == table_by_id(target_info.dst_id)
         IN  [key_builder |-> <<ConstExtractor(TRUE)>> \o extractors(src.keys)
                                  \o extractors(dst.keys) \o extractors(target_info.keys),
              val_builder |-> extractors(target_info.vals),
              has_inv |-> TRUE,
              inv_key_builder |-> inv_key_builder_of(target_info, src, dst)]

\* ------------------------------------------------- the closure of iter()

StoreName(in_root) == IF in_root THEN "txn" ELSE "temp"

\* The state of one call of the closure: the two stores, the store accesses
\* issued so far (ok is false for the access that failed), the number of puts
\* issued, the error that ended the row ("none" while it runs), the working
\* key, the main value and the association values collected.
Frame(txn0, temp0) ==
    [txn |-> txn0, temp |-> temp0, log |-> <<>>, nput |-> 0, err |-> "none",
     key |-> NoTuple, val |-> NoTuple, avs |-> <<>>]

\* c is the call's context: the operator o, the upstream item, the store fault
\* injected into this call and the position idx of the item in the upstream.
Access(c, kind, in_root, k, v, ok) ==
    [row |-> c.idx, op |-> kind, store |-> StoreName(in_root), key |-> k,
     val |-> v, ok |-> ok]

\* A put whose failure is not passed on: the row goes on
put_unchecked(c, f, in_root, k, v) ==
    LET n      == f.nput + 1
        failed == c.fault.kind = "put" /\ c.fault.n = n
    IN  [f EXCEPT !.nput = n,
                  !.log  = Append(@, Access(c, "put", in_root, k, v, ~failed)),
                  !.txn  = IF ~failed /\ in_root THEN store_put(@, k, v) ELSE @,
                  !.temp = IF ~failed /\ ~in_root THEN store_put(@, k, v) ELSE @]

\* txn.put(&key, &val) / temp_db.put(write_options, &key, &val), chosen by
\* in_root; the put the fault names fails and writes nothing.
put(c, f, in_root, k, v) ==
    LET n      == f.nput + 1
        failed == c.fault.kind = "put" /\ c.fault.n = n
    IN  [f EXCEPT !.nput = n,
                  !.log  = Append(@, Access(c, "put", in_root, k, v, ~failed)),
                  !.err  = IF failed THEN "StoreError" ELSE @,
                  !.txn  = IF ~failed /\ in_root THEN store_put(@, k, v) ELSE @,
                  !.temp = IF ~failed /\ ~in_root THEN store_put(@, k, v) ELSE @]

\* A probe whose answer is dropped: the row goes on to its writes
probe_unchecked(c, f) ==
    IF f.err # "none" \/ c.o.upsert THEN f
    ELSE LET in_root == c.o.target_info.tid.in_root
             failed  == c.fault.kind = "get"
             g == [f EXCEPT !.log = Append(@, Access(c, "get", in_root, f.key,
                                                     NoTuple, ~failed))]
         IN  IF failed THEN [g EXCEPT !.err = "StoreError"] ELSE g

\* A probe issued by Upsert as well
probe_always(c, f) ==
    IF f.err # "none" THEN f
    ELSE LET in_root  == c.o.target_info.tid.in_root
             failed   == c.fault.kind = "get"
             existing == IF in_root THEN store_get(f.txn, f.key)
                         ELSE store_get(f.temp, f.key)
             g == [f EXCEPT !.log = Append(@, Access(c, "get", in_root, f.key,
                                                     NoTuple, ~failed))]
         IN  IF failed THEN [g EXCEPT !.err = "StoreError"]
             ELSE IF existing THEN [g EXCEPT !.err = "KeyConflict"]
             ELSE g

\* lines 181-190: the collision probe of a non-upsert operator
probe(c, f) ==
    IF f.err # "none" \/ c.o.upsert THEN f
    ELSE LET in_root  == c.o.target_info.tid.in_root
             failed   == c.fault.kind = "get"
             existing == IF in_root THEN store_get(f.txn, f.key)
                         ELSE store_get(f.temp, f.key)
             g == [f EXCEPT !.log = Append(@, Access(c, "get", in_root, f.key,
                                                     NoTuple, ~failed))]
         IN  IF failed THEN [g EXCEPT !.err = "StoreError"]
             ELSE IF existing THEN [g EXCEPT !.err = "KeyConflict"]
             ELSE g

\* A main put that Upsert skips when the key is already stored
put_main_if_absent(c, f) ==
    IF f.err # "none" THEN f
    ELSE IF c.o.upsert /\ store_get(IF c.o.target_info.tid.in_root THEN f.txn ELSE f.temp,
                                    f.key)
    THEN f
    ELSE put(c, f, c.o.target_info.tid.in_root, f.key, f.val)

\* lines 191-195: the main record
put_main(c, f) ==
    IF f.err # "none" THEN f
    ELSE put(c, f, c.o.target_info.tid.in_root, f.key, f.val)

\* lines 196-205: the inverse record of an edge, whose value is the forward key
put_inverse(c, f) ==
    LET b == make_key_builders(c.o.target_info)
    IN  IF f.err # "none" \/ ~b.has_inv THEN f
        ELSE LET inv_key == eval_to_tuple(c.o.target_info.tid.id, b.inv_key_builder,
                                          c.item.t)
             IN  IF ~inv_key.ok THEN [f EXCEPT !.err = "EvalError"]
                 ELSE put(c, f, c.o.target_info.tid.in_root, inv_key.tup, f.key)

\* An association record routed by the main table's flag
put_assoc_main_store(c, f, info) ==
    LET ret == eval_to_tuple(DataKindData, extractors(info.vals), c.item.t)
    IN  IF ~ret.ok THEN [f EXCEPT !.err = "EvalError"]
        ELSE LET key == overwrite_prefix(f.key, info.tid.id)
                 g   == put(c, [f EXCEPT !.key = key], c.o.target_info.tid.in_root,
                            key, ret.tup)
             IN  IF g.err # "none" THEN g
                 ELSE [g EXCEPT !.avs = Append(@, ret.tup)]

\* lines 208-217: one association: its value is evaluated, the working key's
\* prefix is overwritten with the association's id, and the record is put to
\* the store the association's own id selects.
put_assoc(c, f, info) ==
    LET ret == eval_to_tuple(DataKindData, extractors(info.vals), c.item.t)
    IN  IF ~ret.ok THEN [f EXCEPT !.err = "EvalError"]
        ELSE LET key == overwrite_prefix(f.key, info.tid.id)
                 g   == put(c, [f EXCEPT !.key = key], info.tid.in_root, key, ret.tup)
             IN  IF g.err # "none" THEN g
                 ELSE [g EXCEPT !.avs = Append(@, ret.tup)]

\* lines 206-218: the associations in the order the operator holds them,
\* stopping at the first failure
RECURSIVE put_assocs(_, _, _)
put_assocs(c, f, infos) ==
    IF f.err # "none" \/ infos = <<>> THEN f
    ELSE put_assocs(c, put_assoc(c, f, Head(infos)), Tail(infos))

\* The working key returned as the last association left it
restore_key_skipped(c, f) == f

\* line 220: the key's prefix is restored for the output tuple
restore_key(c, f) ==
    IF f.err # "none" THEN f
    ELSE [f EXCEPT !.key = overwrite_prefix(@, c.o.target_info.tid.id)]

\* The associations written before the inverse record
row_body_assocs_first(c, f) ==
    restore_key(c, put_inverse(c, put_assocs(c, put_main(c, probe(c, f)),
                                             c.o.assoc_infos)))

\* lines 181-220 in the order of the code
row_body(c, f) ==
    restore_key(c, put_assocs(c, put_inverse(c, put_main(c, probe(c, f))),
                              c.o.assoc_infos))

\* A working key that outlives the row: after the first row it still carries
\* the prefix of an association
row_start_leaked_key(c, f) ==
    IF ~c.item.ok THEN [f EXCEPT !.err = "UpstreamError"]
    ELSE LET b   == make_key_builders(c.o.target_info)
             pre == IF c.idx > 1 /\ c.o.assoc_infos # <<>>
                    THEN c.o.assoc_infos[1].tid.id ELSE c.o.target_info.tid.id
             key == eval_to_tuple(pre, b.key_builder, c.item.t)
             val == eval_to_tuple(DataKindData, b.val_builder, c.item.t)
         IN  IF ~key.ok \/ ~val.ok THEN [f EXCEPT !.err = "EvalError"]
             ELSE [f EXCEPT !.key = key.tup, !.val = val.tup]

\* lines 173-180: an upstream error is passed on; the main key and the main
\* value are evaluated before any store access
row_start(c, f) ==
    IF ~c.item.ok THEN [f EXCEPT !.err = "UpstreamError"]
    ELSE LET b   == make_key_builders(c.o.target_info)
             key == eval_to_tuple(c.o.target_info.tid.id, b.key_builder, c.item.t)
             val == eval_to_tuple(DataKindData, b.val_builder, c.item.t)
         IN  IF ~key.ok \/ ~val.ok THEN [f EXCEPT !.err = "EvalError"]
             ELSE [f EXCEPT !.key = key.tup, !.val = val.tup]

\* lines 222-228 and the error returns: what the consumer receives
row_result(f) ==
    IF f.err = "none"
    THEN [kind |-> "Ok", keys |-> <<f.key>>, vals |-> <<f.val>> \o f.avs]
    ELSE IF f.err = "KeyConflict"
    THEN [kind |-> "KeyConflict", keys |-> <<f.key>>, vals |-> <<>>]
    ELSE [kind |-> f.err, keys |-> <<>>, vals |-> <<>>]

\* A closure whose writes are held back instead of reaching the stores
iter_next_buffered(o, item, fault, idx, txn0, temp0) ==
    LET c == [o |-> o, item |-> item, fault |-> fault, idx |-> idx]
    IN  [row_body(c, row_start(c, Frame(txn0, temp0)))
            EXCEPT !.txn = txn0, !.temp = temp0]

\* One call of the closure of iter() (lines 172-229)
iter_next(o, item, fault, idx, txn0, temp0) ==
    LET c == [o |-> o, item |-> item, fault |-> fault, idx |-> idx]
    IN  row_body(c, row_start(c, Frame(txn0, temp0)))

\* ---------------------------------------------------------------- inputs

Cols == {"pid", "cid", "name", "tag"}

ColVals(col) ==
    IF col = "pid" THEN 1..MaxKey ELSE IF col = "name" THEN {1, 2} ELSE {1}

\* The upstream tuples: each binds pid, name and tag, or all of them but one
\* (cid is bound by every tuple)
Tuples ==
    UNION {{t \in [S -> 1..(MaxKey + 2)] : \A col \in S : t[col] \in ColVals(col)} :
           S \in {Cols} \cup {Cols \ {col} : col \in Cols \ {"cid"}}}

EmptyTuple == [col \in {} |-> 0]

\* The items of the upstream iterator: a tuple set or an error
Items == {[ok |-> TRUE, t |-> t] : t \in Tuples} \cup {[ok |-> FALSE, t |-> EmptyTuple]}

NoFault == [kind |-> "none", n |-> 0]

\* puts one row of operator o issues when nothing fails
NumPuts(o) ==
    1 + (IF o.target_info.kind = "Edge" THEN 1 ELSE 0) + Len(o.assoc_infos)

\* Insertion::binding_map: the shape of the operator's output tuples
binding_map(o) == [key_size |-> 1, val_size |-> 1 + Len(o.assoc_infos)]

\* The store faults of one call: none, the probe fails, or the n-th put fails
Faults(o) ==
    {NoFault, [kind |-> "get", n |-> 0]} \cup {[kind |-> "put", n |-> n] : n \in 1..NumPuts(o)}

ChainNames ==
    {"Person", "WorksAt", "PersonMeta", "PersonNote", "CompanyMeta", "PersonIdx", "Nope"}

RECURSIVE SeqsUpTo(_, _)
SeqsUpTo(S, n) ==
    IF n = 0 THEN {<<>>}
    ELSE LET shorter == SeqsUpTo(S, n - 1)
         IN  shorter \cup {Append(q, x) : q \in shorter, x \in S}

\* The chains Insertion::build is tried on
Chains == SeqsUpTo(ChainNames, MaxChain)

\* The chains of the operators that are iterated
SessionChains == {<<"Person">>, <<"Company">>, <<"WorksAt">>, <<"Nope">>}

\* ------------------------------------------- the typing environment

\* A definition held by the environment (Structured::Node / Structured::Edge)
NodeDef(id, keys, cols) ==
    [kind |-> "Node", id |-> id, keys |-> keys, cols |-> cols, src |-> NoId,
     dst |-> NoId, out_e |-> <<>>, in_e |-> <<>>]

EdgeDef(id, src, dst, keys, cols) ==
    [kind |-> "Edge", id |-> id, keys |-> keys, cols |-> cols, src |-> src,
     dst |-> dst, out_e |-> <<>>, in_e |-> <<>>]

NoDef ==
    [kind |-> "None", id |-> NoId, keys |-> <<>>, cols |-> <<>>, src |-> NoId,
     dst |-> NoId, out_e |-> <<>>, in_e |-> <<>>]

\* A scope maps the names defined in it to their definitions; the environment
\* is a stack of scopes, the root scope first and the current scope last.
EmptyScope == [n \in {} |-> NoDef]

root_mut(stack) == 1

cur_mut(stack) == Len(stack)

\* the scope in which name resolves from scope k, walking outward to the root
\* (0: the name does not resolve)
RECURSIVE resolve_scope(_, _, _)
resolve_scope(stack, k, name) ==
    IF k = 0 THEN 0
    ELSE IF name \in DOMAIN stack[k] THEN k
    ELSE resolve_scope(stack, k - 1, name)

resolve(stack, k, name) ==
    LET j == resolve_scope(stack, k, name)
    IN  IF j = 0 THEN NoDef ELSE stack[j][name]

\* define_new: the name is inserted in scope k unless it already resolves
\* there; nothing is replaced
define_new(stack, k, name, def) ==
    IF resolve_scope(stack, k, name) # 0 THEN [ok |-> FALSE, env |-> stack]
    ELSE [ok  |-> TRUE,
          env |-> [stack EXCEPT ![k] =
                      [n \in DOMAIN @ \cup {name} |-> IF n = name THEN def ELSE @[n]]]]

\* the identifiers the definitions are written with
DefNames == {"A", "B", "E", "_r"}

\* every definition the environment holds
AllDefs(stack) ==
    {stack[x[1]][x[2]] : x \in {y \in (DOMAIN stack) \X DefNames : y[2] \in DOMAIN stack[y[1]]}}

\* the largest id held with persistence Global (in_root) or Local
MaxId(ids) ==
    IF ids = {} THEN 0
    ELSE LET i == CHOOSE i \in ids : \A j \in ids : j <= i IN i

\* get_next_table_id: a fresh id of the requested persistence, above every
\* id of that persistence already given to a definition
get_next_table_id(stack, is_local) ==
    TableId(~is_local,
            1 + MaxId({d.id.id : d \in {x \in AllDefs(stack) : x.id.in_root = ~is_local}}))

\* ------------------------------------------------- the schema builder

\* A parsed definition: `[local] node name {cols}` or
\* `[local] edge (src)-[name]->(dst) {cols}?`. cols tells what the column
\* block holds: "key" (a key column and a plain one), "nokey" (no column is
\* marked as key), "badtype" (a column of a type that does not resolve) or
\* "none" (an edge without a block).
NodeFrag(local, name, cols) ==
    [local |-> local, rule |-> "node_def", name |-> name, src |-> "", dst |-> "",
     cols |-> cols]

EdgeFrag(local, src, name, dst, cols) ==
    [local |-> local, rule |-> "edge_def", name |-> name, src |-> src, dst |-> dst,
     cols |-> cols]

\* build_name_in_def with forbid_underscore: "_r" is the reserved identifier
build_name_in_def(name) == IF name = "_r" THEN "ReservedIdent" ELSE "none"

\* build_col_defs: the columns are split by their key marker; a column whose
\* type does not resolve fails the block (build_type)
build_col_defs(cols) ==
    IF cols = "badtype" THEN [err |-> "UndefinedType", keys |-> <<>>, cols |-> <<>>]
    ELSE IF cols = "key" THEN [err |-> "none", keys |-> <<"id">>, cols |-> <<"c">>]
    ELSE IF cols = "nokey" THEN [err |-> "none", keys |-> <<>>, cols |-> <<"c">>]
    ELSE [err |-> "none", keys |-> <<>>, cols |-> <<>>]

Failed(stack, e) == [err |-> e, env |-> stack]

\* A node definition that takes the place of an earlier one of its name
build_node_def_redefining(stack, k, d, table_id) ==
    LET c == build_col_defs(d.cols)
    IN  IF build_name_in_def(d.name) # "none" THEN Failed(stack, build_name_in_def(d.name))
        ELSE IF c.err # "none" THEN Failed(stack, c.err)
        ELSE [err |-> "none",
              env |-> [stack EXCEPT ![k] =
                          [n \in DOMAIN @ \cup {d.name} |->
                              IF n = d.name THEN NodeDef(table_id, c.keys, c.cols)
                              ELSE @[n]]]]

\* StructuredEnvItem::build_node_def on scope k
build_node_def(stack, k, d, table_id) ==
    LET c == build_col_defs(d.cols)
        r == define_new(stack, k, d.name, NodeDef(table_id, c.keys, c.cols))
    IN  IF build_name_in_def(d.name) # "none" THEN Failed(stack, build_name_in_def(d.name))
        ELSE IF c.err # "none" THEN Failed(stack, c.err)
        ELSE IF r.ok THEN [err |-> "none", env |-> r.env]
        ELSE Failed(stack, "NameConflict")

\* resolve_mut(name) followed by a push of table_id to out_e or in_e
push_out_e(stack, k, name, table_id) ==
    [stack EXCEPT ![resolve_scope(stack, k, name)][name].out_e = Append(@, table_id)]

push_in_e(stack, k, name, table_id) ==
    [stack EXCEPT ![resolve_scope(stack, k, name)][name].in_e = Append(@, table_id)]

\* Back-references that reach the source node only
link_edge_src_only(stack, k, src_name, dst_name, table_id) ==
    push_out_e(stack, k, src_name, table_id)

\* lines 77-87: the registered edge is listed by its two endpoints
link_edge(stack, k, src_name, dst_name, table_id) ==
    push_in_e(push_out_e(stack, k, src_name, table_id), k, dst_name, table_id)

\* StructuredEnvItem::build_edge_def on scope k
build_edge_def(stack, k, d, table_id) ==
    LET src == resolve(stack, k, d.src)
        dst == resolve(stack, k, d.dst)
        c   == build_col_defs(d.cols)
        r   == define_new(stack, k, d.name,
                          EdgeDef(table_id, src.id, dst.id, c.keys, c.cols))
    IN  IF build_name_in_def(d.src) # "none" THEN Failed(stack, build_name_in_def(d.src))
        ELSE IF src.kind = "None" THEN Failed(stack, "UndefinedType")
        ELSE IF src.kind # "Node" THEN Failed(stack, "WrongType")
        ELSE IF build_name_in_def(d.name) # "none" THEN Failed(stack, build_name_in_def(d.name))
        ELSE IF build_name_in_def(d.dst) # "none" THEN Failed(stack, build_name_in_def(d.dst))
        ELSE IF dst.kind = "None" THEN Failed(stack, "UndefinedType")
        ELSE IF dst.kind # "Node" THEN Failed(stack, "WrongType")
        ELSE IF table_id.in_root /\ (~src.id.in_root \/ ~dst.id.in_root)
        THEN Failed(stack, "IncompatibleEdge")
        ELSE IF c.err # "none" THEN Failed(stack, c.err)
        ELSE IF r.ok THEN [err |-> "none", env |-> link_edge(r.env, k, d.src, d.dst, table_id)]
        ELSE Failed(stack, "NameConflict")

\* lines 188-205: one definition of the pass, built in the scope chosen for it
build_def(stack, d) ==
    LET next_id      == get_next_table_id(stack, d.local)
        env_to_build == IF d.local THEN root_mut(stack) ELSE cur_mut(stack)
    IN  IF d.rule = "node_def" THEN build_node_def(stack, env_to_build, d, next_id)
        ELSE build_edge_def(stack, env_to_build, d, next_id)

\* A pass that goes on after a failing definition and reports the first error
RECURSIVE build_table_skipping(_, _, _)
build_table_skipping(stack, defs, i) ==
    IF i > Len(defs) THEN [err |-> "none", env |-> stack, at |-> 0]
    ELSE LET r    == build_def(stack, defs[i])
             rest == build_table_skipping(r.env, defs, i + 1)
         IN  IF r.err # "none" THEN [err |-> r.err, env |-> rest.env, at |-> i]
             ELSE rest

\* StructuredEnv::build_table from the i-th definition on: the first failing
\* definition ends the pass (at: its position, 0 when the pass succeeds)
RECURSIVE build_table(_, _, _)
build_table(stack, defs, i) ==
    IF i > Len(defs) THEN [err |-> "none", env |-> stack, at |-> 0]
    ELSE LET r == build_def(stack, defs[i])
         IN  IF r.err # "none" THEN [err |-> r.err, env |-> r.env, at |-> i]
             ELSE build_table(r.env, defs, i + 1)

\* The definitions a schema is written with
NodeFrags ==
    {NodeFrag(l, n, "key") : l \in BOOLEAN, n \in {"A", "B", "_r"}}
        \cup {NodeFrag(l, "A", c) : l \in BOOLEAN, c \in {"nokey", "badtype"}}

EdgeFrags ==
    {EdgeFrag(l, x[1], x[2], x[3], "none") :
        l \in BOOLEAN,
        x \in {<<"A", "E", "B">>, <<"A", "E", "A">>, <<"A", "B", "A">>,
               <<"E", "B", "A">>, <<"A", "B", "E">>}}
        \cup {EdgeFrag(l, "A", "E", "A", "badtype") : l \in BOOLEAN}

Frags == NodeFrags \cup EdgeFrags

\* ----------------------------------------------------------------- state

VARIABLES
    txn,      \* the transactional store (ctx.txn)
    temp,     \* the temporary store (ctx.sess.temp)
    op,       \* the result of the last Insertion::build
    args,     \* the arguments of the last Insertion::build
    log,      \* the store accesses issued by the operator's iterator
    results,  \* what the consumer has pulled from the iterator
    last,     \* the last pull: its fault, the stores before it, its accesses
    env,      \* the typing environment: its stack of scopes
    pass,     \* the build_table pass made on the environment
    upstream  \* self.source.iter(): the items it has given, and whether it ended

vars == <<txn, temp, op, args, log, results, last, env, pass, upstream>>

insertion_vars == <<txn, temp, op, args, log, results, last, upstream>>

\* the upstream iterator before its first item
NoUpstream == [given |-> <<>>, ended |-> FALSE]

\* no pass yet
NoPass == [ran |-> FALSE, defs |-> <<>>, env0 |-> <<EmptyScope>>, err |-> "none", at |-> 0]

NoArgs == [chain |-> <<>>, argc |-> 0, keyed |-> FALSE, upsert |-> FALSE]

NoLast ==
    [valid |-> FALSE, fault |-> NoFault, txn0 |-> EmptyStore, temp0 |-> EmptyStore,
     log |-> <<>>]

Init ==
    /\ txn = EmptyStore
    /\ temp = EmptyStore
    /\ op = NoOp
    /\ args = NoArgs
    /\ log = <<>>
    /\ results = <<>>
    /\ last = NoLast
    /\ env = <<EmptyScope>>
    /\ pass = NoPass
    /\ upstream = NoUpstream

\* Insertion::build, before anything is pulled: the operator (or the error)
\* replaces the previous attempt.
Build(chain, argc, keyed, upsert) ==
    /\ results = <<>>
    /\ op' = build(chain, argc, keyed, upsert)
    /\ args' = [chain |-> chain, argc |-> argc, keyed |-> keyed, upsert |-> upsert]
    /\ log' = <<>>
    /\ results' = <<>>
    /\ last' = NoLast
    /\ upstream' = NoUpstream
    /\ UNCHANGED <<txn, temp, env, pass>>

\* A pull that hands on nothing for an upstream error
Pull_dropping_errors(item, fault) ==
    /\ op.ok
    /\ ~upstream.ended
    /\ Len(upstream.given) < MaxRows
    /\ upstream' = [upstream EXCEPT !.given = Append(@, item)]
    /\ IF ~item.ok THEN UNCHANGED <<txn, temp, log, results, last>>
       ELSE LET f == iter_next(op, item, fault, Len(results) + 1, txn, temp)
            IN  /\ txn' = f.txn
                /\ temp' = f.temp
                /\ log' = log \o f.log
                /\ results' = Append(results, [item |-> item, res |-> row_result(f)])
                /\ last' = [valid |-> TRUE, fault |-> fault, txn0 |-> txn, temp0 |-> temp,
                            log |-> f.log]
    /\ UNCHANGED <<op, args, env, pass>>

\* The consumer pulls the next result: the closure runs on the next upstream
\* item, with the store fault of this call.
Pull(item, fault) ==
    /\ op.ok
    /\ ~upstream.ended
    /\ Len(results) < MaxRows
    /\ upstream' = [upstream EXCEPT !.given = Append(@, item)]
    /\ LET f == iter_next(op, item, fault, Len(results) + 1, txn, temp)
       IN  /\ txn' = f.txn
           /\ temp' = f.temp
           /\ log' = log \o f.log
           /\ results' = Append(results, [item |-> item, res |-> row_result(f)])
           /\ last' = [valid |-> TRUE, fault |-> fault, txn0 |-> txn, temp0 |-> temp,
                       log |-> f.log]
    /\ UNCHANGED <<op, args, env, pass>>

BuildSession == \E chain \in SessionChains, upsert \in BOOLEAN : Build(chain, 3, FALSE, upsert)

BuildAny ==
    \E chain \in Chains, argc \in 0..3, keyed \in BOOLEAN, upsert \in BOOLEAN :
        Build(chain, argc, keyed, upsert)

\* the store has failed during an earlier pull
Faulted == \E i \in 1..Len(results) : results[i].res.kind = "StoreError"

\* The stores fail at most once while the iterator is drained
PullNext ==
    \E item \in Items : \E fault \in (IF Faulted THEN {NoFault} ELSE Faults(op)) :
        Pull(item, fault)

\* The consumer pulls and the upstream has no more items: the map hands on
\* its None (lines 171-172) and the closure is not called
PullEnd ==
    /\ op.ok
    /\ ~upstream.ended
    /\ upstream' = [upstream EXCEPT !.ended = TRUE]
    /\ UNCHANGED <<txn, temp, op, args, log, results, last, env, pass>>

Next == BuildSession \/ PullNext \/ PullEnd

\* A session: operators are built and iterated over the two stores
Spec == Init /\ [][Next]_vars

BuildFirst == op = NoOp /\ BuildAny

\* Insertion::build alone, over every chain and argument list
SpecBuild == Init /\ [][BuildFirst]_vars

\* StructuredEnv::push: a nested scope becomes the current scope
Push ==
    /\ ~pass.ran
    /\ Len(env) = 1
    /\ env' = Append(env, EmptyScope)
    /\ UNCHANGED <<pass, insertion_vars>>

\* StructuredEnv::build_table on the definitions defs
BuildTable(defs) ==
    /\ LET r == build_table(env, defs, 1)
       IN  /\ env' = r.env
           /\ pass' = [ran |-> TRUE, defs |-> defs, env0 |-> env, err |-> r.err,
                       at |-> r.at]
    /\ UNCHANGED insertion_vars

\* one pass is made on an environment
BuildTableAny == ~pass.ran /\ \E defs \in SeqsUpTo(Frags, MaxDefs) : BuildTable(defs)

NextDef == Push \/ BuildTableAny

\* A schema is built: one pass of definitions over the root scope alone or
\* over the root scope and a nested scope
SpecDef == Init /\ [][NextDef]_vars

\* ------------------------------------------------- vocabulary of the claims

N == Len(results)

LastItem == results[N].item

LastRes == results[N].res

IsPut(e) == e.op = "put"

IsGet(e) == e.op = "get"

\* the puts among the accesses l, in the order they were issued
Puts(l) == SelectSeq(l, IsPut)

StoreOf(in_root, t, tm) == IF in_root THEN t ELSE tm

\* The persisted layout: the values of the columns cols in tuple t
Binds(t, cols) == \A i \in 1..Len(cols) : cols[i] \in DOMAIN t

Encoded(t, cols) == [i \in 1..Len(cols) |-> EncInt(t[cols[i]])]

SrcKeys(info) == table_by_id(info.src_id).keys

DstKeys(info) == table_by_id(info.dst_id).keys

MainKeyCols(info) ==
    IF info.kind = "Edge" THEN SrcKeys(info) \o DstKeys(info) \o info.keys ELSE info.keys

\* node row: M ++ keys; edge forward: M ++ TRUE ++ src keys ++ dst keys ++ edge keys
MainKey(info, t) ==
    Tuple(info.tid.id,
          (IF info.kind = "Edge" THEN <<EncBool(TRUE)>> ELSE <<>>)
              \o Encoded(t, MainKeyCols(info)))

\* edge inverse: M ++ FALSE ++ dst keys ++ src keys ++ edge keys
InverseKey(info, t) ==
    Tuple(info.tid.id,
          <<EncBool(FALSE)>> \o Encoded(t, DstKeys(info) \o SrcKeys(info) \o info.keys))

\* payload: DataKind::Data ++ vals
Payload(info, t) == Tuple(DataKindData, Encoded(t, info.vals))

\* the last pull was made on a tuple whose main key evaluates
LastHasKey ==
    /\ last.valid
    /\ LastItem.ok
    /\ Binds(LastItem.t, MainKeyCols(op.target_info))

LastMainKey == MainKey(op.target_info, LastItem.t)

MainInRoot == op.target_info.tid.in_root

\* ------------------------------------------------------------------ claims

\* C1 (collision atomicity): a row processed by a non-upsert Insert whose main
\* key already exists in the main table's destination store changes neither
\* store (no put is issued, and the value under the main key is the one stored
\* before); its result is KeyConflict carrying that key, whenever the row's
\* main value evaluates as well and the probe itself does not fail.
C1_CollisionAtomicity ==
    (LastHasKey /\ ~op.upsert
        /\ LastMainKey \in DOMAIN StoreOf(MainInRoot, last.txn0, last.temp0))
    => /\ txn = last.txn0
       /\ temp = last.temp0
       /\ Puts(last.log) = <<>>
       /\ StoreOf(MainInRoot, txn, temp)[LastMainKey]
              = StoreOf(MainInRoot, last.txn0, last.temp0)[LastMainKey]
       /\ (Binds(LastItem.t, op.target_info.vals) /\ last.fault.kind # "get")
              => LastRes = [kind |-> "KeyConflict", keys |-> <<LastMainKey>>, vals |-> <<>>]

\* C1 witness: an Insert found its row's main key in the store and answered
\* KeyConflict
C1_Witness ==
    /\ LastHasKey /\ ~op.upsert
    /\ LastMainKey \in DOMAIN StoreOf(MainInRoot, last.txn0, last.temp0)
    /\ LastRes.kind = "KeyConflict"
    /\ op.assoc_infos # <<>>

\* C2 (evaluation failures before any writes): when the evaluation of an
\* extractor of a row fails, no record of that row has been written to either
\* store.
C2_EvalFailureBeforeWrites ==
    (last.valid /\ LastRes.kind = "EvalError")
    => /\ txn = last.txn0
       /\ temp = last.temp0
       /\ Puts(last.log) = <<>>

\* C3 (upsert idempotence): when Upsert processes the same row twice in a row
\* and the store did not fail during the first run, the second run leaves both
\* stores exactly as the first run left them, and, unless the store fails
\* during it, returns what the first run returned: it succeeds when the first
\* did.
C3_UpsertIdempotence ==
    (N >= 2 /\ op.upsert /\ results[N].item = results[N - 1].item
        /\ results[N - 1].res.kind # "StoreError")
    => /\ txn = last.txn0
       /\ temp = last.temp0
       /\ LastRes.kind # "StoreError" => LastRes = results[N - 1].res

\* C3 witness: Upsert succeeded twice on the same row
C3_Witness ==
    /\ N >= 2 /\ op.upsert /\ results[N].item = results[N - 1].item
    /\ results[N - 1].res.kind = "Ok"
    /\ LastRes.kind = "Ok"
    /\ op.target_info.kind = "Edge"

\* the tables one row of operator o writes to, in the order of the spec: the
\* main, the main again for the inverse record of an edge, the associations
Targets(o) ==
    <<o.target_info>> \o (IF o.target_info.kind = "Edge" THEN <<o.target_info>> ELSE <<>>)
        \o o.assoc_infos

\* the record the i-th put of a row of operator o carries for tuple t
RecordKey(o, t, i) ==
    IF i = 1 THEN MainKey(o.target_info, t)
    ELSE IF o.target_info.kind = "Edge" /\ i = 2 THEN InverseKey(o.target_info, t)
    ELSE Tuple(Targets(o)[i].tid.id, MainKey(o.target_info, t).data)

RecordVal(o, t, i) ==
    IF i = 1 THEN Payload(o.target_info, t)
    ELSE IF o.target_info.kind = "Edge" /\ i = 2 THEN MainKey(o.target_info, t)
    ELSE Payload(Targets(o)[i], t)

\* C4 (Upsert differs from Insert only by the probe): a row processed by
\* Upsert issues no read and never ends in KeyConflict; its puts (stores, keys,
\* values, order) and its result are those Insert produces for the same row
\* over stores that do not hold the main key; and every record it has put is
\* what the store now holds under that key, whatever was stored there before.
C4_UpsertSkipsOnlyProbe ==
    (last.valid /\ op.upsert)
    => LET ins == iter_next([op EXCEPT !.upsert = FALSE], LastItem, last.fault, N,
                            EmptyStore, EmptyStore)
       IN  /\ SelectSeq(last.log, IsGet) = <<>>
           /\ LastRes.kind # "KeyConflict"
           /\ last.fault.kind # "get"
                  => /\ Puts(last.log) = Puts(ins.log)
                     /\ LastRes = row_result(ins)
           /\ \A i \in 1..Len(last.log) :
                  last.log[i].ok
                  => /\ last.log[i].key \in DOMAIN StoreOf(last.log[i].store = "txn", txn, temp)
                     /\ StoreOf(last.log[i].store = "txn", txn, temp)[last.log[i].key]
                            = last.log[i].val

\* C4 witness: Upsert replaced the value stored under an existing main key
C4_Witness ==
    /\ LastHasKey /\ op.upsert /\ LastRes.kind = "Ok"
    /\ LastMainKey \in DOMAIN StoreOf(MainInRoot, last.txn0, last.temp0)
    /\ StoreOf(MainInRoot, last.txn0, last.temp0)[LastMainKey]
           # StoreOf(MainInRoot, txn, temp)[LastMainKey]

\* C5 (edge bidirectionality): after a row of an edge main table is processed
\* successfully, the edge's destination store holds the forward key (id, TRUE,
\* src keys, dst keys, edge keys) and the inverse key (id, FALSE, dst keys, src
\* keys, edge keys), and the value under the inverse key is the forward key,
\* prefixed with the edge table's id.
C5_EdgeBidirectional ==
    (last.valid /\ LastRes.kind = "Ok" /\ op.target_info.kind = "Edge")
    => LET e   == op.target_info
           s   == StoreOf(e.tid.in_root, txn, temp)
           fwd == MainKey(e, LastItem.t)
           inv == InverseKey(e, LastItem.t)
       IN  /\ fwd \in DOMAIN s
           /\ inv \in DOMAIN s
           /\ s[inv] = fwd
           /\ s[inv].prefix = e.tid.id

\* C5 witness: an edge row between two nodes with different keys was written
C5_Witness ==
    /\ last.valid /\ LastRes.kind = "Ok" /\ op.target_info.kind = "Edge"
    /\ LastItem.t["pid"] # LastItem.t["cid"]
    /\ InverseKey(op.target_info, LastItem.t) \in DOMAIN temp

\* C6 (write ordering): the puts of one row are, in this order, the main
\* record, the inverse record when the main is an edge, and one record per
\* association in the order the operator holds them; a row that fails issues a
\* prefix of them, a row that succeeds all of them; and in the log of the
\* iterator no access of a later row precedes an access of an earlier row.
C6_WriteOrdering ==
    last.valid
    => LET P == Puts(last.log)
       IN  /\ Len(P) <= Len(Targets(op))
           /\ \A i \in 1..Len(P) :
                  /\ P[i].key = RecordKey(op, LastItem.t, i)
                  /\ P[i].val = RecordVal(op, LastItem.t, i)
                  /\ i < Len(P) => P[i].ok
           /\ LastRes.kind = "Ok" => Len(P) = Len(Targets(op))
           /\ \A i \in 1..Len(log) : \A j \in i..Len(log) : log[i].row <= log[j].row
           /\ \A i \in 1..Len(last.log) :
                  log[Len(log) - Len(last.log) + i] = last.log[i] /\ last.log[i].row = N

\* C6 witness: the second row of an edge with an association wrote its three
\* records after the records of the first row
C6_Witness ==
    /\ N = 2 /\ LastRes.kind = "Ok" /\ results[1].res.kind = "Ok"
    /\ op.target_info.kind = "Edge"
    /\ Len(Puts(last.log)) = 3
    /\ Len(log) > Len(last.log)

\* The chain of the last build, read against the catalog
KindOf(name) ==
    IF \E i \in CatalogIdx : Catalog[i].name = name
    THEN (CHOOSE t \in {Catalog[i] : i \in CatalogIdx} : t.name = name).kind
    ELSE "Unknown"

TableOf(name) == CHOOSE t \in {Catalog[i] : i \in CatalogIdx} : t.name = name

IsMainName(name) == KindOf(name) \in {"Node", "Edge"}

IsAssocName(name) == KindOf(name) = "Assoc"

\* the mains and the associations the chain names, in the order it names them
ChainMains == SelectSeq(args.chain, IsMainName)

ChainAssocs == SelectSeq(args.chain, IsAssocName)

\* the first name of the chain that is no node, edge or association (0: none)
FirstBadName ==
    LET bad == {i \in 1..Len(args.chain) : ~IsMainName(args.chain[i])
                                              /\ ~IsAssocName(args.chain[i])}
    IN  IF bad = {} THEN 0 ELSE CHOOSE i \in bad : \A j \in bad : i <= j

\* a build was run, and its arguments held at least the source and the chain
BuildRan == op # NoOp /\ args.argc >= 2

\* a build was run on a complete argument list: source, chain and plain dict
BuildRanComplete == op # NoOp /\ args.argc = 3 /\ ~args.keyed

\* C7 (explicit association of another main): a chain that names one main and
\* an association whose src_id is not the main's id fails to build with
\* NoAssociation(association name, main name).
C7_ForeignAssocRejected ==
    (BuildRanComplete /\ FirstBadName = 0 /\ Len(ChainMains) = 1
        /\ \E i \in 1..Len(ChainAssocs) :
               TableOf(ChainAssocs[i]).src_id # TableOf(ChainMains[1]).tid)
    => /\ ~op.ok
       /\ op.err = "NoAssociation"
       /\ \E i \in 1..Len(ChainAssocs) :
              /\ TableOf(ChainAssocs[i]).src_id # TableOf(ChainMains[1]).tid
              /\ op.arg = <<ChainAssocs[i], ChainMains[1]>>

\* C8 (association attachment rule): the built operator holds every
\* association of the main when the chain lists none, and exactly the listed
\* associations, in the listed order, when the chain lists some.
C8_AttachmentRule ==
    (BuildRan /\ op.ok)
    => op.assoc_infos =
           IF ChainAssocs = <<>> THEN assocs_by_main_id(op.target_info.tid)
           ELSE [i \in 1..Len(ChainAssocs) |-> TableOf(ChainAssocs[i])]

\* C9 (exactly one main): a build succeeds only on a chain whose names all
\* resolve to nodes, edges or associations and that names exactly one main,
\* which becomes the operator's target; such a chain with no main or several
\* mains fails with WrongSpecification; a chain whose first offending name
\* resolves to no table fails with TableNotFound(name), and one whose first
\* offending name is a table of another kind fails with WrongTableKind.
C9_ExactlyOneMain ==
    /\ (op # NoOp /\ op.ok)
           => /\ args.argc >= 2
              /\ FirstBadName = 0
              /\ Len(ChainMains) = 1
              /\ op.target_info = TableOf(ChainMains[1])
    /\ (BuildRan /\ FirstBadName = 0 /\ Len(ChainMains) # 1)
           => ~op.ok /\ op.err = "WrongSpecification"
    /\ (BuildRan /\ FirstBadName # 0)
           => /\ ~op.ok
              /\ op.arg = <<args.chain[FirstBadName]>>
              /\ op.err = IF KindOf(args.chain[FirstBadName]) = "Unknown"
                          THEN "TableNotFound" ELSE "WrongTableKind"

\* C9 witness: a chain of two mains and an association was refused
C9_Witness ==
    /\ BuildRan /\ FirstBadName = 0
    /\ Len(ChainMains) = 2 /\ Len(ChainAssocs) = 1
    /\ op.err = "WrongSpecification"

\* the stores after the puts P of one row have been applied to s, each put
\* going to the store its target table's in_root flag selects
RECURSIVE Routed(_, _, _, _, _)
Routed(s, P, T, in_root, i) ==
    IF i > Len(P) THEN s
    ELSE Routed(IF P[i].ok /\ T[i].tid.in_root = in_root
                THEN store_put(s, P[i].key, P[i].val) ELSE s,
                P, T, in_root, i + 1)

\* C10 (per-record store routing): every put of a row goes to the
\* transactional store iff the in_root flag of its target table is true and to
\* the temporary store otherwise (main and inverse record by the main's flag,
\* each association record by its own); the probe reads the store the main's
\* flag selects; the stores after the row are the stores before it with these
\* records put where their flags say, so a store no target selects is
\* untouched.
C10_StoreRouting ==
    last.valid
    => LET P == Puts(last.log)
           T == Targets(op)
       IN  /\ \A i \in 1..Len(P) : P[i].store = StoreName(T[i].tid.in_root)
           /\ \A i \in 1..Len(last.log) :
                  IsGet(last.log[i])
                  => /\ last.log[i].store = StoreName(MainInRoot)
                     /\ last.log[i].key = LastMainKey
           /\ txn = Routed(last.txn0, P, T, TRUE, 1)
           /\ temp = Routed(last.temp0, P, T, FALSE, 1)
           /\ (\A i \in 1..Len(T) : T[i].tid.in_root) => temp = last.temp0
           /\ (\A i \in 1..Len(T) : ~T[i].tid.in_root) => txn = last.txn0

\* C10 witness: one row of a global main put a record to each store, its local
\* association's record under the same key as the main record
C10_Witness ==
    /\ last.valid /\ LastRes.kind = "Ok" /\ MainInRoot
    /\ \E i \in 1..Len(last.log) : IsGet(last.log[i])
    /\ txn # last.txn0 /\ temp # last.temp0
    /\ LastMainKey \in DOMAIN temp

\* C11 (output tuple shape): every row processed successfully emits a tuple
\* set with exactly one key and 1 + |assocs| values, as binding_map announces
\* (key_size 1, val_size 1 + |assocs|); the key is the row's main key under
\* the main table's id, the first value is the main payload, and the values
\* after it are the association payloads in the order their records were put.
C11_OutputShape ==
    (last.valid /\ LastRes.kind = "Ok")
    => LET P == Puts(last.log)
           A == op.assoc_infos
           first == Len(P) - Len(A)
       IN  /\ Len(LastRes.keys) = 1
           /\ Len(LastRes.keys) = binding_map(op).key_size
           /\ LastRes.keys[1] = MainKey(op.target_info, LastItem.t)
           /\ LastRes.keys[1].prefix = op.target_info.tid.id
           /\ Len(LastRes.vals) = 1 + Len(A)
           /\ Len(LastRes.vals) = binding_map(op).val_size
           /\ LastRes.vals[1] = Payload(op.target_info, LastItem.t)
           /\ \A i \in 1..Len(A) :
                  /\ LastRes.vals[1 + i] = Payload(A[i], LastItem.t)
                  /\ LastRes.vals[1 + i] = P[first + i].val
                  /\ P[first + i].key.prefix = A[i].tid.id

\* C11 witness: a row of a main whose last association has another id was
\* emitted with its association value
C11_Witness ==
    /\ last.valid /\ LastRes.kind = "Ok"
    /\ op.assoc_infos # <<>>
    /\ op.assoc_infos[Len(op.assoc_infos)].tid.id # op.target_info.tid.id
    /\ Len(LastRes.vals) = 2

\* ----------------------------------------------------- schema definitions

Nodes(stack) == {d \in AllDefs(stack) : d.kind = "Node"}

Edges(stack) == {d \in AllDefs(stack) : d.kind = "Edge"}

Occurs(x, q) == \E i \in 1..Len(q) : q[i] = x

\* the entries (scope, name) the environment holds
Entries(stack) == {y \in (DOMAIN stack) \X DefNames : y[2] \in DOMAIN stack[y[1]]}

\* the definition at which the pass failed, and the definitions before it
FailedDef == pass.defs[pass.at]

Processed == IF pass.at = 0 THEN Len(pass.defs) ELSE pass.at - 1

\* the scope a definition is built in
TargetScope(d) == IF d.local THEN root_mut(env) ELSE cur_mut(env)

\* the environment as the definitions before the failing one left it
EnvBeforeFailure == build_table(pass.env0, SubSeq(pass.defs, 1, pass.at - 1), 1)

\* C12 (schema back-references): after a pass of definitions, for every edge
\* E registered in the environment the node with id E.src holds E.id in its
\* out_e and the node with id E.dst holds E.id in its in_e (a self-loop's
\* node holds it in both); and every id a node lists is the id of a
\* registered edge that starts (out_e) or ends (in_e) at that node, so an
\* edge definition that failed has added no id to any list.
C12_BackReferences ==
    pass.ran
    => /\ \A e \in Edges(env) :
              /\ \E n \in Nodes(env) : n.id = e.src /\ Occurs(e.id, n.out_e)
              /\ \E n \in Nodes(env) : n.id = e.dst /\ Occurs(e.id, n.in_e)
       /\ \A n \in Nodes(env) :
              /\ \A i \in 1..Len(n.out_e) :
                     \E e \in Edges(env) : e.id = n.out_e[i] /\ e.src = n.id
              /\ \A i \in 1..Len(n.in_e) :
                     \E e \in Edges(env) : e.id = n.in_e[i] /\ e.dst = n.id
       /\ (pass.err # "none" /\ FailedDef.rule = "edge_def")
              => \A n \in Nodes(env) : \A m \in Nodes(EnvBeforeFailure.env) :
                     n.id = m.id => (n.out_e = m.out_e /\ n.in_e = m.in_e)

\* C12 witness: a self-loop edge is listed in both lists of its node, and the
\* edge definition after it failed
C12_Witness ==
    /\ pass.ran /\ pass.err # "none" /\ FailedDef.rule = "edge_def"
    /\ \E e \in Edges(env) : \E n \in Nodes(env) :
           /\ e.src = n.id /\ e.dst = n.id
           /\ n.out_e = <<e.id>> /\ n.in_e = <<e.id>>

\* the nodes defined under a name, in any scope
NodesNamed(name) ==
    {env[y[1]][y[2]] : y \in {z \in Entries(env) : z[2] = name /\ env[z[1]][z[2]].kind = "Node"}}

IsNodeName(name) == NodesNamed(name) # {} /\ \A y \in Entries(env) : y[2] = name => env[y[1]][y[2]].kind = "Node"

IsLocalNodeName(name) == IsNodeName(name) /\ \A n \in NodesNamed(name) : ~n.id.in_root

\* C13 (edge scoping): no registered edge declared global has a local node
\* as src or dst, and a global edge definition whose endpoints are nodes, one
\* of them local, fails with IncompatibleEdge; an edge definition declared
\* local whose endpoints were both defined earlier as nodes (global, local or
\* one of each) and which has no other defect is registered.
C13_EdgeScoping ==
    pass.ran
    => /\ \A e \in Edges(env) : e.id.in_root => (e.src.in_root /\ e.dst.in_root)
       /\ (pass.err # "none" /\ FailedDef.rule = "edge_def" /\ ~FailedDef.local
               /\ IsNodeName(FailedDef.src) /\ IsNodeName(FailedDef.dst)
               /\ (IsLocalNodeName(FailedDef.src) \/ IsLocalNodeName(FailedDef.dst)))
              => pass.err = "IncompatibleEdge"
       /\ ~ /\ pass.err # "none" /\ FailedDef.rule = "edge_def" /\ FailedDef.local
            /\ IsNodeName(FailedDef.src) /\ IsNodeName(FailedDef.dst)
            /\ FailedDef.cols # "badtype"
            /\ \A y \in Entries(env) : y[2] # FailedDef.name

\* C14 (name uniqueness): a definition whose name already resolves in its
\* target scope fails - with NameConflict when that is its only defect - and
\* leaves the environment as it was, so the name still resolves to the first
\* definition with its id, columns and edge lists; and every definition the
\* pass has registered is still held under its name, in its scope, with the
\* id, the kind and the keys it was given: none was replaced by a later one.
C14_NameUniqueness ==
    pass.ran
    => /\ pass.err = "NameConflict"
              => /\ resolve_scope(env, TargetScope(FailedDef), FailedDef.name) # 0
                 /\ env = EnvBeforeFailure.env
                 /\ resolve(env, TargetScope(FailedDef), FailedDef.name)
                        = resolve(EnvBeforeFailure.env, TargetScope(FailedDef), FailedDef.name)
       /\ (pass.err # "none"
               /\ resolve_scope(env, TargetScope(FailedDef), FailedDef.name) # 0
               /\ FailedDef.cols # "badtype"
               /\ (FailedDef.rule = "edge_def"
                       => /\ resolve(env, TargetScope(FailedDef), FailedDef.src).kind = "Node"
                          /\ resolve(env, TargetScope(FailedDef), FailedDef.dst).kind = "Node"
                          /\ (FailedDef.local
                                  \/ /\ resolve(env, TargetScope(FailedDef), FailedDef.src).id.in_root
                                     /\ resolve(env, TargetScope(FailedDef), FailedDef.dst).id.in_root)))
              => pass.err = "NameConflict"
       /\ \A i \in 1..Processed :
              LET d == pass.defs[i]
                  k == TargetScope(d)
              IN  /\ d.name \in DOMAIN env[k]
                  /\ env[k][d.name].id
                         = TableId(~d.local,
                                   1 + Cardinality({j \in 1..(i - 1) : pass.defs[j].local = d.local}))
                  /\ env[k][d.name].kind = (IF d.rule = "node_def" THEN "Node" ELSE "Edge")
                  /\ env[k][d.name].keys = build_col_defs(d.cols).keys

\* C14 witness: a definition after the first failed on a name that a node
\* holds, and the node is still there
C14_Witness ==
    /\ pass.ran /\ pass.err = "NameConflict" /\ pass.at >= 2
    /\ resolve(env, TargetScope(FailedDef), FailedDef.name).kind = "Node"

\* C15 (a node has keys): every node definition registered in the
\* environment has a non-empty keys list.
C15_NodeKeysNonEmpty ==
    \A n \in Nodes(env) : n.keys # <<>>

\* C16 (scope placement matches persistence): every registered definition
\* whose id has persistence Global lives in the root scope, and every one
\* whose id has persistence Local lives in the current scope.
C16_ScopePlacement ==
    \A y \in Entries(env) :
        /\ env[y[1]][y[2]].id.in_root => y[1] = 1
        /\ ~env[y[1]][y[2]].id.in_root => y[1] = Len(env)

\* C17 (a failing definition stops the pass and damages nothing): when a
\* pass fails, the environment is the one the definitions before the failing
\* one built - each of them registered, resolvable and unchanged - it holds
\* one entry per definition before the failing one and no other, the failing
\* definition's id is listed by no node, and no definition after the failing
\* one has left anything.
C17_FailureStopsPass ==
    (pass.ran /\ pass.err # "none")
    => /\ pass.at \in 1..Len(pass.defs)
       /\ EnvBeforeFailure.err = "none"
       /\ env = EnvBeforeFailure.env
       /\ Cardinality(Entries(env)) = pass.at - 1
       /\ \A i \in 1..(pass.at - 1) :
              resolve(env, TargetScope(pass.defs[i]), pass.defs[i].name).kind
                  = (IF pass.defs[i].rule = "node_def" THEN "Node" ELSE "Edge")
       /\ \A n \in Nodes(env) : \A q \in {n.out_e, n.in_e} : \A i \in 1..Len(q) :
              \E e \in Edges(env) : e.id = q[i]

\* C17 witness: an edge definition failed between a registered node and a
\* definition that was never processed
C17_Witness ==
    /\ pass.ran /\ pass.err # "none" /\ pass.at = 2 /\ Len(pass.defs) = 3
    /\ FailedDef.rule = "edge_def"
    /\ Cardinality(Entries(env)) = 1
    /\ build_def(env, pass.defs[3]).err = "none"

\* ------------------------------------------------- rows and the consumer

\* the accesses of row k among the accesses l
RowLog(l, k) == SelectSeq(l, LAMBDA e : e.row = k)

\* the last pull ran on a tuple from which every record of the row evaluates
LastBindsAll ==
    /\ LastHasKey
    /\ \A i \in 1..Len(Targets(op)) : Binds(LastItem.t, Targets(op)[i].vals)

\* C18 (mid-row failure): when a put of a row fails, the row's result is
\* that store error; the failed put is the last access issued for the row;
\* the records the row had put before it are still in their stores; and the
\* pull after a failed row processes its own row to the end, whatever the
\* failed row left behind.
C18_MidRowFailure ==
    /\ \A i \in 1..Len(log) :
           (IsPut(log[i]) /\ ~log[i].ok)
           => /\ results[log[i].row].res = [kind |-> "StoreError", keys |-> <<>>, vals |-> <<>>]
              /\ i < Len(log) => log[i + 1].row > log[i].row
    /\ (last.valid /\ LastRes.kind = "StoreError" /\ last.fault.kind = "put")
       => LET P == Puts(last.log)
          IN  /\ Len(P) = last.fault.n
              /\ ~P[Len(P)].ok
              /\ \A i \in 1..(Len(P) - 1) :
                     /\ P[i].ok
                     /\ P[i].key \in DOMAIN StoreOf(P[i].store = "txn", txn, temp)
                     /\ StoreOf(P[i].store = "txn", txn, temp)[P[i].key] = P[i].val
    /\ (N >= 2 /\ results[N - 1].res.kind = "StoreError" /\ LastBindsAll
            /\ (op.upsert \/ LastMainKey \notin DOMAIN StoreOf(MainInRoot, last.txn0, last.temp0)))
       => /\ LastRes.kind = "Ok"
          /\ Len(Puts(last.log)) = Len(Targets(op))
          /\ \A i \in 1..Len(last.log) : last.log[i].ok

\* C18 witness: the first row failed at a put after its main record was
\* written, the record is still stored, and the second row was written whole
C18_Witness ==
    /\ N = 2 /\ results[1].res.kind = "StoreError" /\ LastRes.kind = "Ok"
    /\ \E i \in 1..Len(log) :
           /\ log[i].row = 1 /\ IsPut(log[i]) /\ log[i].ok
           /\ log[i].key \in DOMAIN StoreOf(log[i].store = "txn", txn, temp)
    /\ Len(Puts(last.log)) = Len(Targets(op))

\* the number of puts a row on tuple t issues before its evaluation fails
RECURSIVE PutsBeforeEvalError(_, _, _)
PutsBeforeEvalError(o, t, i) ==
    IF i > Len(Targets(o)) \/ ~Binds(t, Targets(o)[i].vals) THEN i - 1
    ELSE PutsBeforeEvalError(o, t, i + 1)

\* the store named name after the puts of l that succeeded, replayed on s
RECURSIVE Replayed(_, _, _, _)
Replayed(s, l, name, i) ==
    IF i > Len(l) THEN s
    ELSE Replayed(IF IsPut(l[i]) /\ l[i].ok /\ l[i].store = name
                  THEN store_put(s, l[i].key, l[i].val) ELSE s,
                  l, name, i + 1)

\* C19 (rows are flushed as they are pulled): when the consumer holds k
\* results, every write of rows 1..k that precedes the row's failure point has
\* been issued and has reached its store, and no read or write of a row after
\* k was issued; an operator that was built but not pulled has written nothing.
C19_FlushedAsPulled ==
    /\ \A i \in 1..Len(log) : log[i].row \in 1..N
    /\ txn = Replayed(EmptyStore, log, "txn", 1)
    /\ temp = Replayed(EmptyStore, log, "temp", 1)
    /\ N = 0 => (log = <<>> /\ txn = EmptyStore /\ temp = EmptyStore)
    /\ \A k \in 1..N :
           LET P == Puts(RowLog(log, k))
               r == results[k]
           IN  /\ r.res.kind = "Ok"
                      => (Len(P) = Len(Targets(op)) /\ \A i \in 1..Len(P) : P[i].ok)
               /\ r.res.kind \in {"KeyConflict", "UpstreamError"} => P = <<>>
               /\ r.res.kind = "EvalError"
                      => /\ \A i \in 1..Len(P) : P[i].ok
                         /\ Len(P) = IF Binds(r.item.t, MainKeyCols(op.target_info))
                                     THEN PutsBeforeEvalError(op, r.item.t, 1) ELSE 0
               /\ r.res.kind = "StoreError"
                      => \A i \in 1..(Len(P) - 1) : P[i].ok

\* C19 witness: one row was pulled from an iterator that has more to give,
\* and its records are in the stores
C19_Witness ==
    /\ N = 1 /\ N < MaxRows /\ LastRes.kind = "Ok"
    /\ Len(Puts(log)) = Len(Targets(op))
    /\ \A i \in 1..Len(log) :
           IsPut(log[i]) => log[i].key \in DOMAIN StoreOf(log[i].store = "txn", txn, temp)

\* C20 (the working key does not leak across rows): the first access of every
\* row (the probe, or the main put of an upsert) is made under the main
\* table's id, also when the row before it failed after the key's prefix was
\* rewritten to an association's id; the main record is put under the key
\* that was probed; and each association record is put under the bytes of
\* that row's main key with only the prefix replaced by the association's id.
C20_NoKeyLeak ==
    /\ \A i \in 1..Len(log) :
           (i = 1 \/ log[i - 1].row < log[i].row)
           => log[i].key.prefix = op.target_info.tid.id
    /\ last.valid
       => LET P     == Puts(last.log)
              G     == SelectSeq(last.log, IsGet)
              first == Len(Targets(op)) - Len(op.assoc_infos)
          IN  /\ \A i \in 1..Len(G) : G[i].key = LastMainKey
              /\ P # <<>> => (P[1].key = LastMainKey
                              /\ P[1].key.prefix = op.target_info.tid.id)
              /\ \A i \in 1..Len(P) :
                     i > first
                     => /\ P[i].key.data = P[1].key.data
                        /\ P[i].key.prefix = op.assoc_infos[i - first].tid.id
                        /\ P[i].key = overwrite_prefix(LastMainKey, op.assoc_infos[i - first].tid.id)

\* C20 witness: the first row failed at an association put, after the key's
\* prefix had been rewritten, and the second row was probed and written under
\* the main table's id
C20_Witness ==
    /\ N = 2 /\ results[1].res.kind = "StoreError" /\ LastRes.kind = "Ok"
    /\ \E i \in 1..Len(log) :
           /\ log[i].row = 1 /\ IsPut(log[i]) /\ ~log[i].ok
           /\ log[i].key.prefix # op.target_info.tid.id
    /\ IsGet(last.log[1])
    /\ last.log[1].key.prefix = op.target_info.tid.id

\* C21 (one result per upstream tuple): the iterator has yielded exactly one
\* result per item the upstream has given, the i-th result belonging to the
\* i-th item (its key and values are the item's, its store accesses are made
\* under the item's keys); an upstream error is that position's result and
\* makes no store access; and when the upstream has ended after n items the
\* consumer holds n results.
C21_OneResultPerTuple ==
    /\ Len(results) = Len(upstream.given)
    /\ upstream.ended => Len(results) = Len(upstream.given)
    /\ \A i \in 1..Len(upstream.given) :
           LET item == upstream.given[i]
               res  == results[i].res
               L    == RowLog(log, i)
           IN  /\ results[i].item = item
               /\ ~item.ok <=> res.kind = "UpstreamError"
               /\ ~item.ok => (L = <<>> /\ res.keys = <<>> /\ res.vals = <<>>)
               /\ res.kind \in {"Ok", "KeyConflict"}
                      => res.keys = <<MainKey(op.target_info, item.t)>>
               /\ res.kind = "Ok" => res.vals[1] = Payload(op.target_info, item.t)
               /\ \A j \in 1..Len(L) :
                      \/ L[j].key.data = MainKey(op.target_info, item.t).data
                      \/ /\ op.target_info.kind = "Edge"
                         /\ L[j].key = InverseKey(op.target_info, item.t)
    /\ \A i \in 1..Len(log) : log[i].row \in 1..Len(upstream.given)

\* C21 witness: an upstream of two items, an error and a tuple, has ended and
\* the consumer holds the error and the tuple's rows, written by one row only
C21_Witness ==
    /\ upstream.ended /\ Len(upstream.given) = 2
    /\ ~upstream.given[1].ok
    /\ results[1].res.kind = "UpstreamError" /\ results[2].res.kind = "Ok"
    /\ RowLog(log, 1) = <<>> /\ RowLog(log, 2) # <<>>

\* the position of the put log[j] among the puts of its row
PutPos(j) == Cardinality({i \in 1..j : IsPut(log[i]) /\ log[i].row = log[j].row})

\* the table the put log[j] writes a record of
Owner(j) == Targets(op)[PutPos(j)].tid

\* the record of its table the put log[j] writes
RecordKind(j) ==
    IF PutPos(j) = 1 THEN "main"
    ELSE IF op.target_info.kind = "Edge" /\ PutPos(j) = 2 THEN "inverse"
    ELSE "assoc"

\* the ids of the catalog's tables are unique within their persistence
CatalogIdsUnique ==
    \A i \in CatalogIdx : \A j \in CatalogIdx : Catalog[i].tid = Catalog[j].tid => i = j

\* C22 (records of distinct tables never share a store slot): over a catalog
\* whose ids are unique within their persistence, two puts of the iterator
\* that reach the same key of the same store write the same record (main,
\* inverse or association) of the same table; a probe reads a slot that only
\* main records of the main table were put to; and the forward key and the
\* inverse key of an edge row differ, whatever the row's endpoints.
C22_NoSharedSlot ==
    CatalogIdsUnique
    => /\ \A i \in 1..Len(log) : \A j \in 1..Len(log) :
              (IsPut(log[i]) /\ IsPut(log[j]) /\ log[i].ok /\ log[j].ok
                   /\ log[i].store = log[j].store /\ log[i].key = log[j].key)
              => (Owner(i) = Owner(j) /\ RecordKind(i) = RecordKind(j))
       /\ \A i \in 1..Len(log) : \A j \in 1..Len(log) :
              (IsGet(log[i]) /\ IsPut(log[j]) /\ log[j].ok
                   /\ log[i].store = log[j].store /\ log[i].key = log[j].key)
              => (Owner(j) = op.target_info.tid /\ RecordKind(j) = "main")
       /\ \A i \in 1..Len(log) :
              (IsPut(log[i]) /\ log[i].ok)
              => /\ log[i].key.prefix = Owner(i).id
                 /\ log[i].store = StoreName(Owner(i).in_root)
       /\ (op.ok /\ op.target_info.kind = "Edge")
              => \A k \in 1..N : \A m \in 1..N :
                     (Binds(results[k].item.t, MainKeyCols(op.target_info))
                          /\ Binds(results[m].item.t, MainKeyCols(op.target_info)))
                     => MainKey(op.target_info, results[k].item.t)
                            # InverseKey(op.target_info, results[m].item.t)

\* C22 witness: the main record of a table and the record of its association
\* of the same id and the other persistence were put under the same key
\* bytes, each to its own store
C22_Witness ==
    /\ last.valid /\ LastRes.kind = "Ok"
    /\ \E i \in 1..Len(log) : \E j \in 1..Len(log) :
           /\ IsPut(log[i]) /\ IsPut(log[j])
           /\ log[i].key = log[j].key
           /\ Owner(i) # Owner(j)
           /\ Owner(i).id = Owner(j).id
           /\ log[i].store # log[j].store

====
